---- MODULE Spec2Model ----
(***************************************************************************)
(* A model of the PM-agent daemon (daemon.py, memory_manager.py,           *)
(* health_server.py): ingestion of Slack mentions, gating of the planner's *)
(* proposals, the file-backed action queue, the execution job, the daily   *)
(* report jobs and the queue cleanup, with process crashes and restarts.   *)
(***************************************************************************)
EXTENDS Integers, Sequences, FiniteSets, TLC

\* ------------------------------------------------------------------ bounds
MaxTextLen == 2        \* longest message_text, in tokens
MaxActions == 2        \* actions created per behaviour (the planner and the reports stop there)
MaxCrashes == 1        \* process crashes per behaviour
MaxPosts == 2          \* Slack messages that may appear per behaviour
MaxClock == 3          \* milliseconds the clock may advance between steps, per behaviour
MaxDocLen == 6         \* longest context.md, in characters
MaxFetched == 2        \* most mentions one channel returns to a cycle

\* --------------------------------------------------------------- identities
None == "None"
Missing == -1          \* an absent number: no confidence given, no executed_at yet
SLACK_USER_ID == "U_AUTH"
SLACK_BOT_USER_ID == "U_BOT"
OtherUser == "U_OTHER"
Users == {SLACK_USER_ID, SLACK_BOT_USER_ID, OtherUser}
channel_ids == <<"C1", "C2">>
Channels == {channel_ids[i] : i \in 1..Len(channel_ids)}

\* text is a sequence of tokens; "?" is a question mark, BotTag is "<@U_BOT>"
BotTag == "<@U_BOT>"
TextAlphabet == {"w", "?", BotTag}
RECURSIVE SeqsUpTo(_, _)
SeqsUpTo(S, n) ==
    IF n = 0 THEN {<<>>}
    ELSE LET shorter == SeqsUpTo(S, n - 1)
         IN shorter \cup {Append(s, x) : s \in {t \in shorter : Len(t) = n - 1}, x \in S}
Texts == SeqsUpTo(TextAlphabet, MaxTextLen)
Contains(text, tok) == \E i \in 1..Len(text) : text[i] = tok

\* ------------------------------------------------------------ action kinds
MessageKinds == {"send_message", "draft_reply"}
TaskKinds == {"schedule_reminder", "update_context_task", "add_calendar_event",
              "send_email_summary"}
PollKind == "post_slack_poll"
MutatingKinds == TaskKinds \cup {PollKind}
UnknownKind == "unsupported_kind"
ActionTypes == MessageKinds \cup MutatingKinds \cup {UnknownKind}

\* confidence in hundredths; Missing when the planner left it out
ConfidenceLevels == {Missing, 0, 50, 70, 71, 75, 76, 85, 86, 100}

TerminalStatuses == {"EXECUTED", "FAILED", "REJECTED_LOGGED"}

\* ------------------------------------------------------------------- Slack
\* The messages that can exist in the monitored channels.
Messages ==
    { [ts |-> "t1", channel |-> "C1", user |-> SLACK_USER_ID, thread_ts |-> None],
      [ts |-> "t2", channel |-> "C2", user |-> SLACK_USER_ID, thread_ts |-> "t0"],
      [ts |-> "t3", channel |-> "C1", user |-> OtherUser, thread_ts |-> None],
      [ts |-> "t4", channel |-> "C2", user |-> SLACK_BOT_USER_ID, thread_ts |-> None] }
EventIds == {m.ts : m \in Messages}
\* get_messages_mentions returns a channel's messages in a fixed order
MessageOrder == <<"t1", "t2", "t3", "t4">>

VARIABLES
    \* persisted state
    file,            \* pending_actions.json: the action queue
    processed,       \* processed_messages table: set of message ts
    sent_reports,    \* sent_reports table: set of report keys
    decisions,       \* decisions table: sequence of [uid, approved]
    \* environment
    authorized_user, \* os.environ SLACK_USER_ID, or None when not configured
    slack,           \* ts of the messages visible in the channels
    bot_threads,     \* threads in which the bot has posted
    now,             \* current time, in hours (IST)
    clock,           \* the last value time.time() gave, in milliseconds since start
    \* the daemon process
    phase,           \* start_daemon's position: startup runs, then the loop
    pc,              \* position of each worker inside its current job
    filtered_mentions, \* per worker: the cycle's surviving events
    new_actions,     \* per worker: the proposals the planner returned
    current_queue,   \* per worker: the in-memory copy of the queue
    idx,             \* execution loop index into current_queue
    dirty,           \* execution job's dirty flag
    rtype,           \* report type being generated
    \* history
    planner_calls,   \* per event id: times handed to the planner
    marker_writes,   \* per event id: rows written to processed_messages
    dispatched,      \* per action uid: collaborator dispatches
    adapter_failures, \* this execute cycle: uids whose adapter call did not perform the side effect
    interrupted,     \* uids whose execution a crash cut off before write-back
    enqueued_reports,\* report keys in order of enqueue
    next_uid,        \* next fresh action uid
    crashes,         \* crashes so far
    aborts,          \* times an exception left a job and ended the daemon
    posts,           \* messages posted so far
    catch_up_runs,   \* report jobs the running catch-up pass has called
    context          \* context.md: the document, character by character

vars == <<file, processed, sent_reports, decisions, authorized_user, slack,
          bot_threads, now, phase, pc, filtered_mentions, new_actions,
          current_queue, idx, dirty, rtype, planner_calls, marker_writes,
          dispatched, adapter_failures, interrupted, enqueued_reports, next_uid,
          crashes, aborts, posts, clock, catch_up_runs, context>>

Workers == {"daemon", "webhook"}

\* ------------------------------------------------------------ small helpers
Range(s) == {s[i] : i \in 1..Len(s)}
RECURSIVE Concat(_)
Concat(ss) == IF ss = <<>> THEN <<>> ELSE Head(ss) \o Concat(Tail(ss))
Msg(ts) == CHOOSE m \in Messages : m.ts = ts
\* the instants between which the clock moves: before the morning report is
\* due, when it is due, when the evening report is due (hours, IST)
TimeLine == <<9, 10, 18>>
Hour == now % 24
Today == now \div 24

\* ------------------------------------------------------------ state_manager
\* The characters of a document: "T" stands for the section title, written out,
\* "x" for any other character that is not white space.
DocAlphabet == {"#", " ", "\n", "T", "x"}
IsSpace(ch) == ch \in {" ", "\n"}
AllSpace(doc, from, to) == \A k \in from..to : IsSpace(doc[k])

\* context.md as the daemon finds it: the section, with a body
InitialContext == <<"#", "#", " ", "T", "\n", "x">>

\* str.strip()
RECURSIVE LStrip(_)
LStrip(text) ==
    IF text # <<>> /\ IsSpace(Head(text)) THEN LStrip(Tail(text)) ELSE text
RECURSIVE RStrip(_)
RStrip(text) ==
    IF text # <<>> /\ IsSpace(text[Len(text)])
    THEN RStrip(SubSeq(text, 1, Len(text) - 1)) ELSE text
Strip(text) == RStrip(LStrip(text))

\* group 1 of the pattern, (##\s+{title}\s*\n), matches doc[p..e]: two "#", white
\* space, the title, then white space ending in a newline; \s* is greedy, so e
\* is the last newline of the white space after the title
HeaderMatch(doc, p, e) ==
    /\ p + 4 <= e
    /\ e <= Len(doc)
    /\ doc[p] = "#"
    /\ doc[p + 1] = "#"
    /\ \E t \in (p + 3)..(e - 1) :
         /\ AllSpace(doc, p + 2, t - 1)
         /\ doc[t] = "T"
         /\ AllSpace(doc, t + 1, e)
    /\ doc[e] = "\n"
    /\ \A later \in (e + 1)..Len(doc) :
         ~(AllSpace(doc, e + 1, later) /\ doc[later] = "\n")

\* the lookahead (?=\n##\s+|\Z) holds after doc[m]
BodyEnd(doc, m) ==
    \/ m = Len(doc)
    \/ /\ m + 4 <= Len(doc)
       /\ doc[m + 1] = "\n"
       /\ doc[m + 2] = "#"
       /\ doc[m + 3] = "#"
       /\ IsSpace(doc[m + 4])

\* re.search: the leftmost match
MatchStarts(doc) == {p \in 1..Len(doc) : \E e \in 1..Len(doc) : HeaderMatch(doc, p, e)}
Min(S) == CHOOSE n \in S : \A other \in S : n <= other

\* update_section(section_title, new_content) on the document doc: whether it
\* raises ValueError, and the content of the file afterwards
update_section(doc, new_content) ==
    IF MatchStarts(doc) = {}
    THEN [raised |-> TRUE, content |-> doc]
    ELSE LET p == Min(MatchStarts(doc))
             e == CHOOSE end \in 1..Len(doc) : HeaderMatch(doc, p, end)
             m == Min({end \in e..Len(doc) : BodyEnd(doc, end)})
         IN [raised |-> FALSE,
             content |-> SubSeq(doc, 1, e) \o Strip(new_content) \o <<"\n">>
                         \o SubSeq(doc, m + 1, Len(doc))]

\* ------------------------------------------------- memory_manager (SQLite)
is_message_processedMutant(ts) == FALSE
is_message_processed(ts) == ts \in processed

\* INSERT OR IGNORE: the rows after marking the messages of `tss`
add_processed_messageMutant(rows, tss) == rows
add_processed_message(rows, tss) == rows \cup tss

NewRows(rows, tss) == tss \ rows

has_sent_report(report_key) == report_key \in sent_reports

\* ------------------------------------------------------ check_mentions_job
ChannelMentionsMutant(channel_id) ==
    SelectSeq([i \in 1..Len(MessageOrder) |-> Msg(MessageOrder[i])],
              LAMBDA m : /\ m.ts \in slack
                         /\ m.channel = channel_id
                         /\ m.user # SLACK_BOT_USER_ID)

\* step 1: the mentions of one channel, the bot's own and unauthorized ones skipped
ChannelMentions(channel_id) ==
    SelectSeq([i \in 1..Len(MessageOrder) |-> Msg(MessageOrder[i])],
              LAMBDA m : /\ m.ts \in slack
                         /\ m.channel = channel_id
                         /\ m.user # SLACK_BOT_USER_ID
                         /\ m.user = authorized_user)

all_mentions(chans) == Concat([i \in 1..Len(chans) |-> ChannelMentions(chans[i])])

\* {m['ts']: m for m in all_mentions}: first position of a ts, last value for it
unique_mentions(ms) ==
    LET firsts == SelectSeq([i \in 1..Len(ms) |-> i],
                            LAMBDA i : \A j \in 1..(i - 1) : ms[j].ts # ms[i].ts)
        last(ts) == ms[CHOOSE i \in 1..Len(ms) :
                         /\ ms[i].ts = ts
                         /\ \A j \in (i + 1)..Len(ms) : ms[j].ts # ts]
    IN [k \in 1..Len(firsts) |-> last(ms[firsts[k]].ts)]

new_mentions(ms) == SelectSeq(ms, LAMBDA m : ~is_message_processed(m.ts))

has_bot_replied_in_thread(channel, thread_ts) == <<channel, thread_ts>> \in bot_threads

AlreadyAnswered(m) ==
    /\ m.thread_ts # None
    /\ m.thread_ts # m.ts
    /\ has_bot_replied_in_thread(m.channel, m.thread_ts)

final_mentionsMutant(ms) == ms

final_mentions(ms) == SelectSeq(ms, LAMBDA m : ~AlreadyAnswered(m))

\* --------------------------------------------------------------- the gate
triggering_users(ms) == {ms[i].user : i \in 1..Len(ms)} \ {None}
triggering_channels(ms) == {ms[i].channel : i \in 1..Len(ms)} \ {None}

is_question(action) == Contains(action.data.message_text, "?")

\* RULE 1: no question back to the triggering user or channel
Rule1Mutant(action, ms) ==
    /\ is_question(action)
    /\ action.data.target_channel_id \in triggering_users(ms)
Rule1(action, ms) ==
    /\ is_question(action)
    /\ \/ action.data.target_channel_id \in triggering_users(ms)
       \/ action.data.target_channel_id \in triggering_channels(ms)

Rule2Mutant(action, ms) ==
    /\ authorized_user # None
    /\ action.data.target_channel_id = authorized_user
    /\ authorized_user \in triggering_users(ms)

\* RULE 2: do not ask the authorized user to clarify their own question
Rule2(action, ms) ==
    /\ authorized_user # None
    /\ action.data.target_channel_id = authorized_user
    /\ is_question(action)
    /\ authorized_user \in triggering_users(ms)

\* RULE 3: no message that tags the bot itself
Rule3(action) == Contains(action.data.message_text, BotTag)

\* RULE 4: backfill thread_ts from the first mention of the target channel
Rule4(action, ms) ==
    LET hits == SelectSeq(ms, LAMBDA m : m.channel = action.data.target_channel_id)
        inferred == IF hits[1].thread_ts # None THEN hits[1].thread_ts ELSE hits[1].ts
    IN IF action.data.thread_ts = None /\ hits # <<>>
       THEN [action EXCEPT !.data.thread_ts = inferred]
       ELSE action

DroppedMutant(action, ms) ==
    \/ action.action_type = UnknownKind
    \/ /\ action.action_type \in MessageKinds
       /\ Rule1(action, ms) \/ Rule2(action, ms) \/ Rule3(action)
Dropped(action, ms) ==
    /\ action.action_type \in MessageKinds
    /\ \/ Rule1(action, ms)
       \/ Rule2(action, ms)
       \/ Rule3(action)

RECURSIVE validated_actions(_, _)
validated_actions(actions, ms) ==
    IF actions = <<>> THEN <<>>
    ELSE LET a == Head(actions)
             rest == validated_actions(Tail(actions), ms)
         IN IF Dropped(a, ms) THEN rest
            ELSE IF a.action_type \in MessageKinds THEN <<Rule4(a, ms)>> \o rest
            ELSE <<a>> \o rest

\* ------------------------------------------------------- approval status
Confidence(action) == IF action.confidence = Missing THEN 50 ELSE action.confidence

trigger_user(action, ms) ==
    IF action.trigger_user_id # None THEN action.trigger_user_id
    ELSE IF ms # <<>> THEN ms[1].user
    ELSE None

is_authorized(action, ms) ==
    IF authorized_user # None THEN trigger_user(action, ms) = authorized_user ELSE FALSE

PollStatusMutant(action, ms) ==
    IF Confidence(action) > 75 THEN "APPROVED" ELSE "PENDING"
PollStatus(action, ms) ==
    IF is_authorized(action, ms) /\ Confidence(action) > 75 THEN "APPROVED" ELSE "PENDING"

AssignStatusMutant(action, ms) ==
    IF action.action_type \in MessageKinds
    THEN IF Confidence(action) >= 70 THEN "APPROVED" ELSE "PENDING"
    ELSE IF action.action_type \in TaskKinds
    THEN IF is_authorized(action, ms) /\ Confidence(action) >= 85 THEN "APPROVED" ELSE "PENDING"
    ELSE IF action.action_type = PollKind
    THEN PollStatus(action, ms)
    ELSE "PENDING"
AssignStatus(action, ms) ==
    IF action.action_type \in MessageKinds
    THEN IF Confidence(action) > 70 THEN "APPROVED" ELSE "PENDING"
    ELSE IF action.action_type \in TaskKinds
    THEN IF is_authorized(action, ms) /\ Confidence(action) > 85 THEN "APPROVED" ELSE "PENDING"
    ELSE IF action.action_type = PollKind
    THEN PollStatus(action, ms)
    ELSE "PENDING"

\* line 426: f"{int(time.time()*1000)}_{len(current_queue)}"; the rendering of
\* two non-negative integers around "_" is one-to-one, so the id is kept as
\* the pair it is made of
ActionId(queue) == [prefix |-> "", time |-> clock, len |-> Len(queue)]

\* one queue entry made from a validated proposal and appended to queue
NewAction(action, ms, uid, queue) ==
    [uid |-> uid,
     id |-> ActionId(queue),
     action_type |-> action.action_type,
     confidence |-> action.confidence,
     trigger_user_id |-> trigger_user(action, ms),
     data |-> action.data,
     status |-> AssignStatus(action, ms),
     created_at |-> now,
     executed_at |-> Missing,
     result |-> None,
     error |-> None]

\* the queue after appending the cycle's validated proposals
RECURSIVE AppendActions(_, _, _, _)
AppendActions(queue, actions, ms, uid) ==
    IF actions = <<>> THEN queue
    ELSE AppendActions(Append(queue, NewAction(Head(actions), ms, uid, queue)),
                       Tail(actions), ms, uid + 1)

\* ------------------------------------------------------------ the planner
Proposal(atype, conf, trig, target, text, thread) ==
    [action_type |-> atype, confidence |-> conf, trigger_user_id |-> trig,
     data |-> [target_channel_id |-> target, message_text |-> text, text |-> <<>>,
               thread_ts |-> thread, time_iso |-> Missing]]

\* a schedule_reminder proposal with its time_iso (an hour; Missing when left out)
Reminder(conf, trig, target, time) ==
    [Proposal("schedule_reminder", conf, trig, target, <<>>, None)
        EXCEPT !.data.time_iso = time]

\* a reminder's time_iso: left out, already past at every instant of TimeLine,
\* still ahead at every instant of TimeLine
ReminderTimes == {Missing, TimeLine[1] - 1, TimeLine[Len(TimeLine)] + 1}

\* every shape the response schema allows (one proposal)
AllProposals ==
    { Proposal(atype, conf, trig, target, text, None) :
        atype \in ActionTypes, conf \in ConfidenceLevels,
        trig \in {SLACK_USER_ID, OtherUser, None},
        target \in Channels \cup {SLACK_USER_ID, OtherUser, None},
        text \in Texts }
    \cup
    \* a message whose text is under one of the other keys execution reads
    \* (data.text stands for 'text', 'message' and 'reply_text')
    { [Proposal(atype, conf, SLACK_USER_ID, target, <<>>, None) EXCEPT !.data.text = text] :
        atype \in MessageKinds, conf \in ConfidenceLevels,
        target \in Channels \cup {SLACK_USER_ID, OtherUser, None},
        text \in {<<"?">>, <<BotTag>>} }
    \cup
    { Reminder(conf, trig, "C1", time) :
        conf \in ConfidenceLevels, trig \in {SLACK_USER_ID, OtherUser, None},
        time \in ReminderTimes }

\* the responses the planner gives in the full system
PlannerOutputs ==
    { <<Proposal("send_message", 86, SLACK_USER_ID, "C1", <<"w">>, None)>>,
      <<Proposal("send_message", 50, SLACK_USER_ID, "C2", <<"w">>, None)>>,
      <<Reminder(86, None, "C1", TimeLine[1] - 1)>>,
      <<Proposal("send_message", 86, SLACK_USER_ID, "C1", <<"?">>, None),
        Proposal("update_context_task", 100, OtherUser, None, <<>>, None)>> }

\* ------------------------------------------------------------- job control
NextPhase(ph) ==
    CASE ph = "start_mentions" -> "start_cleanup"
      [] ph = "start_cleanup" -> "start_reports"
      [] OTHER -> "loop"

\* the job of worker w returns
Return(w) ==
    /\ pc' = [pc EXCEPT ![w] = "idle"]
    /\ phase' = IF w = "daemon" THEN NextPhase(phase) ELSE phase

CanStart(w, phases) ==
    /\ pc[w] = "idle"
    /\ w = "daemon" => phase \in phases

Bump(f, keys) == [k \in DOMAIN f |-> IF k \in keys THEN f[k] + 1 ELSE f[k]]

\* the locals of worker w's check_mentions_job
Locals(w, ms, acts, queue) ==
    /\ filtered_mentions' = [filtered_mentions EXCEPT ![w] = ms]
    /\ new_actions' = [new_actions EXCEPT ![w] = acts]
    /\ current_queue' = [current_queue EXCEPT ![w] = queue]

\* lines 62-72: the queue read from the file; [] when the file cannot be read
\* or parsed (the exception is logged)
get_pending_actions(readable) == IF readable THEN file ELSE <<>>

\* lines 74-79: the file after json.dump of the queue; as it was when the
\* write fails (the exception is logged)
save_pending_actions(actions, saved) == IF saved THEN actions ELSE file

\* check_mentions_job returns: its locals are gone
CM_Return(w) ==
    /\ Return(w)
    /\ Locals(w, <<>>, <<>>, <<>>)

\* lines 128-200: deduplicate the merged mentions, drop the processed and the
\* already answered ones
Deduplicate(w, merged) ==
       LET unique == unique_mentions(merged)
           fresh == new_mentions(unique)
           answered == {fresh[i].ts : i \in {j \in 1..Len(fresh) : AlreadyAnswered(fresh[j])}}
           survivors == final_mentions(fresh)
       IN /\ processed' = add_processed_message(processed, answered)
          /\ marker_writes' = Bump(marker_writes, NewRows(processed, answered))
          /\ IF survivors = <<>>
             THEN CM_Return(w)
             ELSE /\ pc' = [pc EXCEPT ![w] = "cm_mark"]
                  /\ Locals(w, survivors, <<>>, <<>>)
                  /\ UNCHANGED phase

\* lines 101-200: collect the channels' mentions and deduplicate them
CM_Collect(w, chans) ==
    /\ CanStart(w, {"start_mentions", "loop"})
    /\ Deduplicate(w, all_mentions(chans))
    /\ UNCHANGED <<context, file, sent_reports, decisions, authorized_user, slack, bot_threads,
                   now, idx, dirty, rtype, planner_calls, dispatched, adapter_failures, interrupted,
                   enqueued_reports, next_uid, crashes, aborts, posts, clock, catch_up_runs>>

\* lines 128-200 on their own: the cycle stands after the channel loop, with
\* all_mentions (held in filtered_mentions until the filters have run) as merged
CM_Dedup(w) ==
    /\ pc[w] = "cm_dedup"
    /\ Deduplicate(w, filtered_mentions[w])
    /\ UNCHANGED <<context, file, sent_reports, decisions, authorized_user, slack, bot_threads,
                   now, idx, dirty, rtype, planner_calls, dispatched, adapter_failures, interrupted,
                   enqueued_reports, next_uid, crashes, aborts, posts, clock, catch_up_runs>>

\* lines 223-225: mark the surviving mentions processed
CM_Mark(w) ==
    /\ pc[w] = "cm_mark"
    /\ LET tss == {filtered_mentions[w][i].ts : i \in 1..Len(filtered_mentions[w])}
       IN /\ processed' = add_processed_message(processed, tss)
          /\ marker_writes' = Bump(marker_writes, NewRows(processed, tss))
    /\ pc' = [pc EXCEPT ![w] = "cm_plan"]
    /\ UNCHANGED <<context, file, sent_reports, decisions, authorized_user, slack, bot_threads,
                   now, phase, filtered_mentions, new_actions, current_queue,
                   idx, dirty, rtype, planner_calls, dispatched, adapter_failures,
                   interrupted, enqueued_reports, next_uid, crashes, aborts, posts, clock, catch_up_runs>>

\* client_manager.py 13-21: the credentials ClientManager loads, both configured
keys == <<"GOOGLE_API_KEY", "GOOGLE_API_KEY_BACKUP">>

\* where the cycle stands when the planner call has raised: on a 429 /
\* RESOURCE_EXHAUSTED answer, or on anything else (an answer that does not
\* parse included)
PlannerFailures == {"cm_rate_limited", "cm_error"}

\* lines 339-354: the planner call, made once with manager.get_client(); it
\* raises, or it answers with proposals
CM_Plan(w) ==
    /\ pc[w] = "cm_plan"
    /\ planner_calls' = Bump(planner_calls,
                             {filtered_mentions[w][i].ts : i \in 1..Len(filtered_mentions[w])})
    /\ clock' = clock + 1
    /\ \/ /\ \E failure \in PlannerFailures : pc' = [pc EXCEPT ![w] = failure]
          /\ UNCHANGED <<phase, filtered_mentions, new_actions, current_queue>>
       \/ \E out \in PlannerOutputs :
             /\ next_uid + Len(out) - 1 <= MaxActions
             /\ Locals(w, filtered_mentions[w], out, <<>>)
             /\ pc' = [pc EXCEPT ![w] = "cm_gate"]
             /\ UNCHANGED phase
    /\ UNCHANGED <<context, file, processed, sent_reports, decisions, authorized_user, slack,
                   bot_threads, now, idx, dirty, rtype, marker_writes, dispatched, adapter_failures,
                   interrupted, enqueued_reports, next_uid, crashes, aborts, posts, catch_up_runs>>

\* lines 494-497: the except clause of check_mentions_job logs the exception
\* and the job returns
CM_Except(w) ==
    /\ pc[w] \in PlannerFailures
    /\ CM_Return(w)
    /\ UNCHANGED <<context, file, processed, sent_reports, decisions, authorized_user, slack,
                   bot_threads, now, idx, dirty, rtype, planner_calls, marker_writes,
                   dispatched, adapter_failures, interrupted, enqueued_reports,
                   next_uid, crashes, aborts, posts, clock, catch_up_runs>>

\* lines 356-487: validate the proposals, read the queue, append the new actions
CM_Gate(w, readable) ==
    /\ pc[w] = "cm_gate"
    /\ LET valid == validated_actions(new_actions[w], filtered_mentions[w])
       IN IF valid = <<>>
          THEN /\ CM_Return(w)
               /\ UNCHANGED next_uid
          ELSE /\ Locals(w, filtered_mentions[w], new_actions[w],
                         AppendActions(get_pending_actions(readable), valid,
                                       filtered_mentions[w], next_uid))
               /\ next_uid' = next_uid + Len(valid)
               /\ pc' = [pc EXCEPT ![w] = "cm_save"]
               /\ UNCHANGED phase
    /\ UNCHANGED <<context, file, processed, sent_reports, decisions, authorized_user, slack,
                   bot_threads, now, idx, dirty, rtype, planner_calls, marker_writes,
                   dispatched, adapter_failures, interrupted, enqueued_reports, crashes, aborts, posts, clock, catch_up_runs>>

\* line 489: save_pending_actions(current_queue)
CM_Save(w) ==
    /\ pc[w] = "cm_save"
    /\ file' = current_queue[w]
    /\ CM_Return(w)
    /\ UNCHANGED <<context, processed, sent_reports, decisions, authorized_user, slack,
                   bot_threads, now, idx, dirty, rtype, planner_calls, marker_writes,
                   dispatched, adapter_failures, interrupted, enqueued_reports, next_uid, crashes, aborts, posts, clock, catch_up_runs>>

\* ------------------------------------------------- execute_approved_actions_job
\* line 744: queue = get_pending_actions()
EX_Start ==
    /\ CanStart("daemon", {"loop"})
    /\ current_queue' = [current_queue EXCEPT !["daemon"] = file]
    /\ idx' = 1
    /\ dirty' = FALSE
    /\ pc' = [pc EXCEPT !["daemon"] = "ex_loop"]
    /\ UNCHANGED <<context, file, processed, sent_reports, decisions, authorized_user, slack,
                   bot_threads, now, phase, filtered_mentions, new_actions,
                   rtype, planner_calls, marker_writes, dispatched, adapter_failures, interrupted,
                   enqueued_reports, next_uid, crashes, aborts, posts, clock, catch_up_runs>>

\* lines 772-796: the channel and the text a message action is sent with
target_channel(action) ==
    IF action.data.target_channel_id # None THEN action.data.target_channel_id
    ELSE authorized_user
msg_text(action) ==
    LET taken == IF action.data.message_text # <<>> THEN action.data.message_text
                 ELSE action.data.text
    IN SelectSeq(taken, LAMBDA tok : tok # BotTag)

\* What the dispatch of one APPROVED action can do (lines 752-857):
\*   "precheck_error"  an exception before any adapter is called
\*   "no_dispatch"     no adapter is called and no exception is raised
\*   "adapter_ok"      the adapter is called and returns
\*   "adapter_error"   the adapter is called and raises
\*   "adapter_failed"  the adapter is called, does not perform the side effect and
\*                     returns (slack_tools.py 106-109, 143-149: the error is
\*                     printed, or handed back in a dict)
Outcomes(action) ==
    IF action.action_type \in MessageKinds
    THEN IF \/ target_channel(action) = None
            \/ action.data.message_text = <<>> /\ action.data.text = <<>>
         THEN {"precheck_error"}
         ELSE IF target_channel(action) = SLACK_BOT_USER_ID
         THEN {"no_dispatch"}
         ELSE {"adapter_ok", "adapter_error", "adapter_failed"}
    ELSE IF action.action_type = "schedule_reminder"
    THEN IF action.data.target_channel_id = None \/ action.data.time_iso = Missing
         THEN {"precheck_error"}
         ELSE {"adapter_ok", "adapter_error", "adapter_failed"}
    ELSE IF action.action_type = PollKind
    THEN IF action.data.target_channel_id = None
         THEN {"precheck_error"}
         ELSE {"precheck_error", "adapter_ok", "adapter_error", "adapter_failed"}
    ELSE IF action.action_type = "update_context_task"
    THEN {"no_dispatch", "adapter_ok", "adapter_error"}
    ELSE IF action.action_type = "send_email_summary"
    THEN {"adapter_ok", "adapter_error", "adapter_failed"}
    ELSE IF action.action_type = "add_calendar_event"
    THEN {"precheck_error", "adapter_ok", "adapter_error", "adapter_failed"}
    ELSE {"no_dispatch"}

\* the outcomes in which an adapter was called
Called == {"adapter_ok", "adapter_error", "adapter_failed"}
\* the outcomes in which the try block reaches its end
Succeeded == {"adapter_ok", "adapter_failed", "no_dispatch"}
\* the outcomes in which a called adapter did not perform the side effect
NotPerformed == {"adapter_error", "adapter_failed"}

Result(action, outcome) ==
    IF action.action_type \in MessageKinds
    THEN IF outcome = "no_dispatch" THEN "Skipped (Self-Target)" ELSE "Message sent"
    ELSE IF action.action_type = "update_context_task" THEN "Context updated"
    ELSE IF outcome = "no_dispatch" THEN "Success"
    ELSE IF outcome = "adapter_failed" THEN "{'error': ...}"
    ELSE "result"

\* lines 859-862: the try block reached its end
Executed(action, outcome) ==
    [action EXCEPT !.status = "EXECUTED",
                   !.executed_at = now,
                   !.result = Result(action, outcome)]

\* lines 875-877: the except block
Failed(action) == [action EXCEPT !.status = "FAILED", !.error = "error"]

\* the bot's message lands in a thread
PostedThreads(action, outcome) ==
    IF /\ action.action_type \in MessageKinds
       /\ outcome = "adapter_ok"
       /\ action.data.thread_ts # None
    THEN {<<target_channel(action), action.data.thread_ts>>}
    ELSE {}

\* line 747: the entries the loop executes
IsApprovedMutant(action) == action.status \in {"APPROVED", "FAILED"}
IsExecutingMutant(action) == action.status = "EXECUTING"
IsApproved(action) == action.status = "APPROVED"

\* lines 747-890: one APPROVED entry; `store` says how the history store answers:
\* "ok", or "error" when log_action_execution / log_decision raise in the try block
EX_Approved(store) ==
    /\ pc["daemon"] = "ex_loop"
    /\ idx <= Len(current_queue["daemon"])
    /\ LET action == current_queue["daemon"][idx]
       IN /\ IsApproved(action)
          /\ \E outcome \in Outcomes(action) :
               LET called == outcome \in Called
                   success == outcome \in Succeeded
                   after == IF success /\ store = "ok" THEN Executed(action, outcome)
                            ELSE IF success THEN Failed(Executed(action, outcome))
                            ELSE Failed(action)
               IN /\ current_queue' = [current_queue EXCEPT !["daemon"][idx] = after]
                  /\ dispatched' = IF called THEN Bump(dispatched, {action.uid})
                                   ELSE dispatched
                  /\ adapter_failures' = IF outcome \in NotPerformed
                                         THEN adapter_failures \cup {action.uid}
                                         ELSE adapter_failures
                  /\ bot_threads' = bot_threads \cup PostedThreads(action, outcome)
                  /\ decisions' = IF success /\ store = "ok"
                                  THEN Append(decisions, [uid |-> action.uid, approved |-> TRUE])
                                  ELSE decisions
    /\ idx' = idx + 1
    /\ dirty' = TRUE
    /\ UNCHANGED <<context, file, processed, sent_reports, authorized_user, slack, now, phase, pc,
                   filtered_mentions, new_actions, rtype, planner_calls,
                   marker_writes, interrupted, enqueued_reports, next_uid, crashes, aborts, posts, clock, catch_up_runs>>

\* lines 892-901: one REJECTED entry is logged
EX_Rejected ==
    /\ pc["daemon"] = "ex_loop"
    /\ idx <= Len(current_queue["daemon"])
    /\ LET action == current_queue["daemon"][idx]
       IN /\ ~IsApproved(action)
          /\ action.status = "REJECTED"
          /\ decisions' = Append(decisions, [uid |-> action.uid, approved |-> FALSE])
          /\ current_queue' = [current_queue EXCEPT
                                 !["daemon"][idx].status = "REJECTED_LOGGED"]
    /\ idx' = idx + 1
    /\ dirty' = TRUE
    /\ UNCHANGED <<context, file, processed, sent_reports, authorized_user, slack, bot_threads, now,
                   phase, pc, filtered_mentions, new_actions, rtype,
                   planner_calls, marker_writes, dispatched, adapter_failures, interrupted,
                   enqueued_reports, next_uid, crashes, aborts, posts, clock, catch_up_runs>>

\* line 747: an entry in any other status is passed over
EX_Skip ==
    /\ pc["daemon"] = "ex_loop"
    /\ idx <= Len(current_queue["daemon"])
    /\ ~IsApproved(current_queue["daemon"][idx])
    /\ current_queue["daemon"][idx].status # "REJECTED"
    /\ idx' = idx + 1
    /\ UNCHANGED <<context, file, processed, sent_reports, decisions, authorized_user, slack,
                   bot_threads, now, phase, pc, filtered_mentions, new_actions,
                   current_queue, dirty, rtype, planner_calls, marker_writes, dispatched, adapter_failures,
                   interrupted, enqueued_reports, next_uid, crashes, aborts, posts, clock, catch_up_runs>>

\* lines 903-905: the loop is over; the queue is written back when dirty
EX_Finish ==
    /\ pc["daemon"] = "ex_loop"
    /\ idx > Len(current_queue["daemon"])
    /\ file' = IF dirty THEN current_queue["daemon"] ELSE file
    /\ current_queue' = [current_queue EXCEPT !["daemon"] = <<>>]
    /\ idx' = 0
    /\ dirty' = FALSE
    /\ adapter_failures' = {}
    /\ Return("daemon")
    /\ UNCHANGED <<context, processed, sent_reports, decisions, authorized_user, slack, bot_threads,
                   now, filtered_mentions, new_actions, rtype, planner_calls,
                   marker_writes, dispatched, interrupted, enqueued_reports, next_uid,
                   crashes, aborts, posts, clock, catch_up_runs>>

\* --------------------------------------------------------- process restarts
\* uids whose execution this cycle has begun and whose outcome is not written back
InFlight ==
    IF pc["daemon"] = "ex_loop"
    THEN {current_queue["daemon"][i].uid :
            i \in {j \in 1..Len(current_queue["daemon"]) :
                     /\ j < idx
                     /\ j <= Len(file)
                     /\ file[j].status = "APPROVED"
                     /\ current_queue["daemon"][j].status # "APPROVED"}}
    ELSE {}

\* the daemon process dies and is started again: start_daemon runs from its top
Restart ==
    /\ interrupted' = interrupted \cup InFlight
    /\ phase' = "start_mentions"
    /\ pc' = [pc EXCEPT !["daemon"] = "idle"]
    /\ filtered_mentions' = [filtered_mentions EXCEPT !["daemon"] = <<>>]
    /\ new_actions' = [new_actions EXCEPT !["daemon"] = <<>>]
    /\ current_queue' = [current_queue EXCEPT !["daemon"] = <<>>]
    /\ idx' = 0
    /\ dirty' = FALSE
    /\ rtype' = None
    /\ adapter_failures' = {}
    /\ catch_up_runs' = {}

\* the process is killed at any point (deploy, out of memory, host restart)
Crash ==
    /\ crashes + aborts < MaxCrashes
    /\ Restart
    /\ crashes' = crashes + 1
    /\ UNCHANGED <<context, aborts, file, processed, sent_reports, decisions, authorized_user, slack,
                   bot_threads, now, planner_calls, marker_writes, dispatched,
                   enqueued_reports, next_uid, posts, clock>>

\* lines 881-888 and 894-899: the history store raises outside any try block (in
\* the except handler of an APPROVED entry, or while logging a REJECTED one); the
\* exception leaves the job, schedule.run_pending and start_daemon
EX_Abort ==
    /\ crashes + aborts < MaxCrashes
    /\ pc["daemon"] = "ex_loop"
    /\ idx <= Len(current_queue["daemon"])
    /\ LET action == current_queue["daemon"][idx]
       IN \/ /\ IsApproved(action)
             /\ \E outcome \in Outcomes(action) :
                  /\ dispatched' = IF outcome \in Called
                                   THEN Bump(dispatched, {action.uid})
                                   ELSE dispatched
                  /\ bot_threads' = bot_threads \cup PostedThreads(action, outcome)
                  /\ interrupted' = interrupted \cup InFlight \cup {action.uid}
          \/ /\ ~IsApproved(action)
             /\ action.status = "REJECTED"
             /\ interrupted' = interrupted \cup InFlight
             /\ UNCHANGED <<dispatched, bot_threads, clock, catch_up_runs>>
    /\ adapter_failures' = {}
    /\ phase' = "start_mentions"
    /\ pc' = [pc EXCEPT !["daemon"] = "idle"]
    /\ filtered_mentions' = [filtered_mentions EXCEPT !["daemon"] = <<>>]
    /\ new_actions' = [new_actions EXCEPT !["daemon"] = <<>>]
    /\ current_queue' = [current_queue EXCEPT !["daemon"] = <<>>]
    /\ idx' = 0
    /\ dirty' = FALSE
    /\ rtype' = None
    /\ aborts' = aborts + 1
    /\ UNCHANGED <<context, file, processed, sent_reports, decisions, authorized_user, slack, now,
                   planner_calls, marker_writes, enqueued_reports, next_uid, crashes,
                   posts, clock, catch_up_runs>>

\* ------------------------------------------------------------- environment
\* a user posts one of the messages
SlackPost(ts) ==
    /\ posts < MaxPosts
    /\ ts \notin slack
    /\ slack' = slack \cup {ts}
    /\ posts' = posts + 1
    /\ UNCHANGED <<context, file, processed, sent_reports, decisions, authorized_user, bot_threads,
                   now, phase, pc, filtered_mentions, new_actions, current_queue,
                   idx, dirty, rtype, planner_calls, marker_writes, dispatched, adapter_failures,
                   interrupted, enqueued_reports, next_uid, crashes, aborts, clock, catch_up_runs>>

\* time passes without the daemon doing anything
ClockTick ==
    /\ clock < MaxClock
    /\ clock' = clock + 1
    /\ UNCHANGED <<context, file, processed, sent_reports, decisions, authorized_user, slack,
                   bot_threads, now, phase, pc, filtered_mentions, new_actions,
                   current_queue, idx, dirty, rtype, planner_calls, marker_writes,
                   dispatched, adapter_failures, interrupted, enqueued_reports,
                   next_uid, crashes, aborts, posts, catch_up_runs>>

\* hours pass
Tick ==
    /\ \E i \in 1..(Len(TimeLine) - 1) :
         /\ now = TimeLine[i]
         /\ now' = TimeLine[i + 1]
    /\ clock' = clock + 1
    /\ UNCHANGED <<context, file, processed, sent_reports, decisions, authorized_user, slack,
                   bot_threads, phase, pc, filtered_mentions, new_actions, current_queue,
                   idx, dirty, rtype, planner_calls, marker_writes, dispatched, adapter_failures,
                   interrupted, enqueued_reports, next_uid, crashes, aborts, posts, catch_up_runs>>

\* the operator approves or rejects a PENDING action in the queue file
Operator(i, verdict) ==
    /\ i \in 1..Len(file)
    /\ file[i].status = "PENDING"
    /\ file' = [file EXCEPT ![i].status = verdict]
    /\ UNCHANGED <<context, processed, sent_reports, decisions, authorized_user, slack, bot_threads,
                   now, phase, pc, filtered_mentions, new_actions, current_queue,
                   idx, dirty, rtype, planner_calls, marker_writes, dispatched, adapter_failures,
                   interrupted, enqueued_reports, next_uid, crashes, aborts, posts, clock, catch_up_runs>>

\* ------------------------------------------------------------ daily reports
ReportTypes == {"morning", "evening"}
MorningHour == 10
EveningHour == 18
DueHour(type) == IF type = "morning" THEN MorningHour ELSE EveningHour
report_key(type) == <<"daily", type, Today>>

ReportAction(type, uid) ==
    [uid |-> uid,
     id |-> [prefix |-> "daily-" \o type, time |-> clock, len |-> 0],
     action_type |-> "send_message",
     confidence |-> 95,
     trigger_user_id |-> None,
     data |-> [target_channel_id |-> channel_ids[1], message_text |-> <<"w">>,
               text |-> <<>>, thread_ts |-> None, time_iso |-> Missing],
     status |-> "APPROVED",
     created_at |-> now,
     executed_at |-> Missing,
     result |-> None,
     error |-> None]

\* lines 659-694 of run_daily_status_job: skip when the marker exists, else
\* generate the report and append it to the queue; `generated` is FALSE when the
\* generation raises. `next` is where the caller goes on when nothing is queued.
Enqueue(type, generated, readable, saved, marking, next) ==
    IF has_sent_report(report_key(type)) \/ ~generated
    THEN /\ pc' = [pc EXCEPT !["daemon"] = next]
         /\ UNCHANGED <<file, enqueued_reports, next_uid, rtype>>
    ELSE /\ next_uid <= MaxActions
         /\ file' = save_pending_actions(
                        Append(get_pending_actions(readable), ReportAction(type, next_uid)),
                        saved)
         /\ enqueued_reports' = Append(enqueued_reports, report_key(type))
         /\ next_uid' = next_uid + 1
         /\ rtype' = type
         /\ pc' = [pc EXCEPT !["daemon"] = marking]

\* the scheduled run_daily_status_job (lines 930-931), at or after its time of day
RP_Start(type, generated, readable, saved) ==
    /\ CanStart("daemon", {"loop"})
    /\ Hour >= DueHour(type)
    /\ Enqueue(type, generated, readable, saved, "rp_mark", "idle")
    /\ UNCHANGED <<context, processed, sent_reports, decisions, authorized_user, slack, bot_threads,
                   now, phase, filtered_mentions, new_actions, current_queue,
                   idx, dirty, planner_calls, marker_writes, dispatched, adapter_failures, interrupted,
                   crashes, aborts, posts, clock, catch_up_runs>>

\* lines 696-698: memory.mark_report_sent(report_key)
RP_Mark ==
    /\ pc["daemon"] \in {"rp_mark", "cu_mark_morning", "cu_mark_evening"}
    /\ sent_reports' = sent_reports \cup {report_key(rtype)}
    /\ rtype' = None
    /\ IF pc["daemon"] = "rp_mark"
       THEN Return("daemon")
       ELSE /\ pc' = [pc EXCEPT !["daemon"] =
                         IF pc["daemon"] = "cu_mark_morning" THEN "cu_evening" ELSE "cu_end"]
            /\ UNCHANGED phase
    /\ UNCHANGED <<context, file, processed, decisions, authorized_user, slack, bot_threads, now,
                   filtered_mentions, new_actions, current_queue, idx, dirty,
                   planner_calls, marker_writes, dispatched, adapter_failures, interrupted,
                   enqueued_reports, next_uid, crashes, aborts, posts, clock, catch_up_runs>>

\* check_and_send_missed_reports, lines 716-723: the morning report
CU_Morning(generated) ==
    /\ CanStart("daemon", {"start_reports"})
    /\ IF Hour >= MorningHour /\ ~has_sent_report(report_key("morning"))
       THEN /\ Enqueue("morning", generated, TRUE, TRUE, "cu_mark_morning", "cu_evening")
            /\ catch_up_runs' = catch_up_runs \cup {"morning"}
       ELSE /\ pc' = [pc EXCEPT !["daemon"] = "cu_evening"]
            /\ UNCHANGED <<file, enqueued_reports, next_uid, rtype, catch_up_runs>>
    /\ UNCHANGED <<context, processed, sent_reports, decisions, authorized_user, slack, bot_threads,
                   now, phase, filtered_mentions, new_actions, current_queue,
                   idx, dirty, planner_calls, marker_writes, dispatched, adapter_failures, interrupted,
                   crashes, aborts, posts, clock>>

\* check_and_send_missed_reports, lines 725-732: the evening report
CU_Evening(generated) ==
    /\ pc["daemon"] = "cu_evening"
    /\ IF Hour >= EveningHour /\ ~has_sent_report(report_key("evening"))
       THEN /\ Enqueue("evening", generated, TRUE, TRUE, "cu_mark_evening", "cu_end")
            /\ catch_up_runs' = catch_up_runs \cup {"evening"}
       ELSE /\ pc' = [pc EXCEPT !["daemon"] = "cu_end"]
            /\ UNCHANGED <<file, enqueued_reports, next_uid, rtype, catch_up_runs>>
    /\ UNCHANGED <<context, processed, sent_reports, decisions, authorized_user, slack, bot_threads,
                   now, phase, filtered_mentions, new_actions, current_queue,
                   idx, dirty, planner_calls, marker_writes, dispatched, adapter_failures, interrupted,
                   crashes, aborts, posts, clock>>

\* check_and_send_missed_reports, lines 734-737: the closing log lines; the
\* pass returns to start_daemon without having called any other job
CU_End ==
    /\ pc["daemon"] = "cu_end"
    /\ Return("daemon")
    /\ catch_up_runs' = {}
    /\ UNCHANGED <<context, file, processed, sent_reports, decisions, authorized_user, slack,
                   bot_threads, now, filtered_mentions, new_actions, current_queue,
                   idx, dirty, rtype, planner_calls, marker_writes, dispatched,
                   adapter_failures, interrupted, enqueued_reports, next_uid,
                   crashes, aborts, posts, clock>>

\* ------------------------------------------------------------------ cleanup
PendingRetentionHours == 72
TerminalRetentionHours == 1

KeptMutant(action) ==
    IF action.status = "PENDING"
    THEN now - action.created_at <= PendingRetentionHours
    ELSE TRUE

\* lines 564-587: does cleanup keep this action?
KeptOrDroppedMutant(action) ==
    IF action.status = "PENDING"
    THEN now - action.created_at < PendingRetentionHours
    ELSE IF action.status \in TerminalStatuses
    THEN LET ts == IF action.executed_at # Missing THEN action.executed_at
                   ELSE action.created_at
         IN now - ts < TerminalRetentionHours
    ELSE action.status # "APPROVED"

Kept(action) ==
    IF action.status = "PENDING"
    THEN now - action.created_at < PendingRetentionHours
    ELSE IF action.status \in TerminalStatuses
    THEN LET ts == IF action.executed_at # Missing THEN action.executed_at
                   ELSE action.created_at
         IN now - ts < TerminalRetentionHours
    ELSE TRUE

active_queue(queue) == SelectSeq(queue, Kept)

\* cleanup_queue_job: the queue is rewritten only when something was purged
CL_Run ==
    /\ CanStart("daemon", {"start_cleanup", "loop"})
    /\ file' = active_queue(file)
    /\ Return("daemon")
    /\ UNCHANGED <<context, processed, sent_reports, decisions, authorized_user, slack, bot_threads,
                   now, filtered_mentions, new_actions, current_queue, idx,
                   dirty, rtype, planner_calls, marker_writes, dispatched, adapter_failures, interrupted,
                   enqueued_reports, next_uid, crashes, aborts, posts, clock, catch_up_runs>>

\* ------------------------------------------------------------------- Init

Init ==
    /\ file = <<>>
    /\ processed = {}
    /\ sent_reports = {}
    /\ decisions = <<>>
    /\ authorized_user = SLACK_USER_ID
    /\ slack = {}
    /\ bot_threads = {}
    /\ now = TimeLine[1]
    /\ phase = "start_mentions"
    /\ pc = [w \in Workers |-> "idle"]
    /\ filtered_mentions = [w \in Workers |-> <<>>]
    /\ new_actions = [w \in Workers |-> <<>>]
    /\ current_queue = [w \in Workers |-> <<>>]
    /\ idx = 0
    /\ dirty = FALSE
    /\ rtype = None
    /\ planner_calls = [e \in EventIds |-> 0]
    /\ marker_writes = [e \in EventIds |-> 0]
    /\ dispatched = [u \in 1..MaxActions |-> 0]
    /\ adapter_failures = {}
    /\ interrupted = {}
    /\ enqueued_reports = <<>>
    /\ next_uid = 1
    /\ crashes = 0
    /\ aborts = 0
    /\ posts = 0
    /\ clock = 0
    /\ catch_up_runs = {}
    /\ context = InitialContext

\* ------------------------------------------------- the gate on its own
\* a message without a 'user' field: the only kind that passes line 123 when
\* SLACK_USER_ID is not configured
NoUserMessage == [ts |-> "t1", channel |-> "C1", user |-> None, thread_ts |-> None]

GateMentions(auth) ==
    IF auth = None THEN {<<NoUserMessage>>}
    ELSE {<<Msg("t1")>>, <<Msg("t2")>>, <<Msg("t1"), Msg("t2")>>}

\* a proposal no rule of the gate drops
HarmlessProposal == Proposal("schedule_reminder", Missing, None, None, <<>>, None)

\* the daemon stands right after the planner call of one cycle, with any
\* proposal the schema allows (followed by a harmless one) and any surviving
\* mentions
InitGate ==
    /\ file = <<>>
    /\ sent_reports = {}
    /\ decisions = <<>>
    /\ authorized_user \in {SLACK_USER_ID, None}
    /\ bot_threads = {}
    /\ now = TimeLine[1]
    /\ phase = "loop"
    /\ pc = [w \in Workers |-> IF w = "daemon" THEN "cm_gate" ELSE "idle"]
    /\ \E ms \in GateMentions(authorized_user) :
         LET tss == {ms[i].ts : i \in 1..Len(ms)}
         IN /\ filtered_mentions = [w \in Workers |-> IF w = "daemon" THEN ms ELSE <<>>]
            /\ slack = tss
            /\ processed = tss
            /\ planner_calls = [e \in EventIds |-> IF e \in tss THEN 1 ELSE 0]
            /\ marker_writes = [e \in EventIds |-> IF e \in tss THEN 1 ELSE 0]
    /\ \E p \in AllProposals :
         new_actions = [w \in Workers |-> IF w = "daemon" THEN <<p, HarmlessProposal>> ELSE <<>>]
    /\ current_queue = [w \in Workers |-> <<>>]
    /\ idx = 0
    /\ dirty = FALSE
    /\ rtype = None
    /\ dispatched = [u \in 1..MaxActions |-> 0]
    /\ adapter_failures = {}
    /\ interrupted = {}
    /\ enqueued_reports = <<>>
    /\ next_uid = 1
    /\ crashes = 0
    /\ aborts = 0
    /\ posts = 0
    /\ clock = 0
    /\ catch_up_runs = {}
    /\ context = InitialContext

\* ------------------------------------------------------------ specifications
\* the daemon process: start_daemon's startup runs, then the scheduler loop,
\* which runs one job at a time
DaemonStep ==
    \/ \E chans \in {channel_ids} : CM_Collect("daemon", chans)
    \/ CM_Mark("daemon")
    \/ CM_Plan("daemon")
    \/ CM_Except("daemon")
    \/ CM_Gate("daemon", TRUE)
    \/ CM_Save("daemon")
    \/ EX_Start
    \/ \E store \in {"ok", "error"} : EX_Approved(store)
    \/ EX_Rejected
    \/ EX_Skip
    \/ EX_Finish
    \/ EX_Abort
    \/ \E type \in ReportTypes, generated \in BOOLEAN : RP_Start(type, generated, TRUE, TRUE)
    \/ RP_Mark
    \/ \E generated \in BOOLEAN : CU_Morning(generated)
    \/ \E generated \in BOOLEAN : CU_Evening(generated)
    \/ CU_End
    \/ CL_Run

EnvStep ==
    \/ \E ts \in EventIds : SlackPost(ts)
    \/ \E i \in 1..MaxActions, verdict \in {"APPROVED", "REJECTED"} : Operator(i, verdict)
    \/ Crash
    \/ Tick

Next == DaemonStep \/ EnvStep

Spec == Init /\ [][Next]_vars

\* ingestion on its own: mention-check cycles of the daemon, messages being
\* posted, and the process restarting between or during cycles
NextIngest ==
    \/ \E chans \in {channel_ids} : CM_Collect("daemon", chans)
    \/ CM_Mark("daemon")
    \/ CM_Plan("daemon")
    \/ CM_Except("daemon")
    \/ CM_Gate("daemon", TRUE)
    \/ CM_Save("daemon")
    \/ CL_Run
    \/ \E generated \in BOOLEAN : CU_Morning(generated)
    \/ \E generated \in BOOLEAN : CU_Evening(generated)
    \/ CU_End
    \/ RP_Mark
    \/ \E ts \in EventIds : SlackPost(ts)
    \/ Crash
    \/ Tick

SpecIngest == Init /\ [][NextIngest]_vars

\* health_server.py, do_POST: an app_mention webhook starts check_mentions_job
\* for the event's channel in a thread of its own, beside the daemon
WebhookStep ==
    \/ \E c \in Channels : CM_Collect("webhook", <<c>>)
    \/ CM_Mark("webhook")
    \/ CM_Plan("webhook")
    \/ CM_Except("webhook")
    \/ CM_Gate("webhook", TRUE)
    \/ CM_Save("webhook")

\* the daemon in its scheduler loop after a startup that found nothing to do;
\* the bot may have replied in the thread of an older conversation
InitLoop ==
    /\ file = <<>>
    /\ processed = {}
    /\ sent_reports = {}
    /\ decisions = <<>>
    /\ authorized_user = SLACK_USER_ID
    /\ slack = {}
    /\ bot_threads \in SUBSET {<<m.channel, m.thread_ts>> : m \in {msg \in Messages : msg.thread_ts # None}}
    /\ now = TimeLine[1]
    /\ phase = "loop"
    /\ pc = [w \in Workers |-> "idle"]
    /\ filtered_mentions = [w \in Workers |-> <<>>]
    /\ new_actions = [w \in Workers |-> <<>>]
    /\ current_queue = [w \in Workers |-> <<>>]
    /\ idx = 0
    /\ dirty = FALSE
    /\ rtype = None
    /\ planner_calls = [e \in EventIds |-> 0]
    /\ marker_writes = [e \in EventIds |-> 0]
    /\ dispatched = [u \in 1..MaxActions |-> 0]
    /\ adapter_failures = {}
    /\ interrupted = {}
    /\ enqueued_reports = <<>>
    /\ next_uid = 1
    /\ crashes = 0
    /\ aborts = 0
    /\ posts = 0
    /\ clock = 0
    /\ catch_up_runs = {}
    /\ context = InitialContext

\* the execute job of the daemon's loop
ExecuteStep ==
    \/ EX_Start
    \/ \E store \in {"ok", "error"} : EX_Approved(store)
    \/ EX_Rejected
    \/ EX_Skip
    \/ EX_Finish

\* the webhook's mention checks beside the daemon's execute job
NextWebhook ==
    \/ WebhookStep
    \/ ExecuteStep
    \/ \E ts \in EventIds : SlackPost(ts)
    \/ \E i \in 1..MaxActions, verdict \in {"APPROVED", "REJECTED"} : Operator(i, verdict)

SpecWebhook == InitLoop /\ [][NextWebhook]_vars

\* the execute job on its own, on any queue that mention checks and the
\* operator can leave in the file
ExecEntry(uid, atype, target, time, status) ==
    [uid |-> uid,
     id |-> [prefix |-> "", time |-> 0, len |-> uid - 1],
     action_type |-> atype,
     confidence |-> 100,
     trigger_user_id |-> SLACK_USER_ID,
     data |-> [target_channel_id |-> target, message_text |-> <<"w">>,
               text |-> <<>>, thread_ts |-> None, time_iso |-> time],
     status |-> status,
     created_at |-> TimeLine[1],
     executed_at |-> Missing,
     result |-> None,
     error |-> None]

ExecEntries(uid) ==
    { ExecEntry(uid, atype, target, Missing, status) :
        atype \in {"send_message", "update_context_task", PollKind, UnknownKind},
        target \in {"C1", None},
        status \in {"PENDING", "APPROVED", "REJECTED"} }
    \cup
    { ExecEntry(uid, "schedule_reminder", "C1", time, status) :
        time \in ReminderTimes, status \in {"PENDING", "APPROVED"} }

ExecQueues ==
    UNION { { q \in [1..n -> UNION {ExecEntries(u) : u \in 1..n}] :
                \A i \in 1..n : q[i].uid = i } : n \in 0..MaxActions }

InitExec ==
    /\ file \in ExecQueues
    /\ processed = {}
    /\ sent_reports = {}
    /\ decisions = <<>>
    /\ authorized_user = SLACK_USER_ID
    /\ slack = {}
    /\ bot_threads = {}
    /\ now = TimeLine[1]
    /\ phase = "loop"
    /\ pc = [w \in Workers |-> "idle"]
    /\ filtered_mentions = [w \in Workers |-> <<>>]
    /\ new_actions = [w \in Workers |-> <<>>]
    /\ current_queue = [w \in Workers |-> <<>>]
    /\ idx = 0
    /\ dirty = FALSE
    /\ rtype = None
    /\ planner_calls = [e \in EventIds |-> 0]
    /\ marker_writes = [e \in EventIds |-> 0]
    /\ dispatched = [u \in 1..MaxActions |-> 0]
    /\ adapter_failures = {}
    /\ interrupted = {}
    /\ enqueued_reports = <<>>
    /\ next_uid = Len(file) + 1
    /\ crashes = 0
    /\ aborts = 0
    /\ posts = 0
    /\ clock = 0
    /\ catch_up_runs = {}
    /\ context = InitialContext

SpecExec == InitExec /\ [][ExecuteStep]_vars

\* the scheduler's mention checks (every 30 seconds) and the webhook's
\* immediate checks, each as start_daemon and do_POST start them
MentionStep ==
    \/ \E chans \in {channel_ids} : CM_Collect("daemon", chans)
    \/ CM_Mark("daemon")
    \/ CM_Plan("daemon")
    \/ CM_Except("daemon")
    \/ CM_Gate("daemon", TRUE)
    \/ CM_Save("daemon")

NextOverlap ==
    \/ MentionStep
    \/ WebhookStep
    \/ \E ts \in EventIds : SlackPost(ts)
    \/ ClockTick

SpecOverlap == InitLoop /\ [][NextOverlap]_vars

\* start_daemon, lines 927-931: the reports scheduled at a time of day, the
\* weekly one on Fridays at 17:00 server time (UTC), which is 22:30 IST
CalendarReports == ReportTypes \cup {"weekly"}
WeeklyHour == 23
IsFriday == Today % 7 = 0
ScheduledTimePassed(report) ==
    IF report = "weekly" THEN IsFriday /\ Hour >= WeeklyHour
    ELSE Hour >= DueHour(report)

\* the report's marker for today exists; run_weekly_report_job (597-642) writes
\* no marker
ReportMarked(report) == report # "weekly" /\ has_sent_report(report_key(report))

\* the process starts on a Friday before, between and after the reports' times
\* of day, or late on the Saturday
StartupInstants == {TimeLine[i] : i \in 1..Len(TimeLine)} \cup {WeeklyHour, 24 + WeeklyHour}

\* start_daemon has run its first mention check and cleanup and enters
\* check_and_send_missed_reports, with any markers of today and any short queue
InitCatchUp ==
    /\ file \in {q \in ExecQueues : Len(q) <= 1}
    /\ processed = {}
    /\ now \in StartupInstants
    /\ sent_reports \in SUBSET {report_key(type) : type \in ReportTypes}
    /\ decisions = <<>>
    /\ authorized_user = SLACK_USER_ID
    /\ slack = {}
    /\ bot_threads = {}
    /\ phase = "start_reports"
    /\ pc = [w \in Workers |-> "idle"]
    /\ filtered_mentions = [w \in Workers |-> <<>>]
    /\ new_actions = [w \in Workers |-> <<>>]
    /\ current_queue = [w \in Workers |-> <<>>]
    /\ idx = 0
    /\ dirty = FALSE
    /\ rtype = None
    /\ planner_calls = [e \in EventIds |-> 0]
    /\ marker_writes = [e \in EventIds |-> 0]
    /\ dispatched = [u \in 1..MaxActions |-> 0]
    /\ adapter_failures = {}
    /\ interrupted = {}
    /\ enqueued_reports = <<>>
    /\ next_uid = Len(file) + 1
    /\ crashes = 0
    /\ aborts = 0
    /\ posts = 0
    /\ clock = 0
    /\ catch_up_runs = {}
    /\ context = InitialContext

\* check_and_send_missed_reports on its own
NextCatchUp ==
    \/ \E generated \in BOOLEAN : CU_Morning(generated)
    \/ \E generated \in BOOLEAN : CU_Evening(generated)
    \/ RP_Mark
    \/ CU_End

SpecCatchUp == InitCatchUp /\ [][NextCatchUp]_vars

\* cleanup on its own: the startup run of cleanup_queue_job (line 937) on a
\* queue whose entries were created up to three days and an hour before
CleanupEntries(uid) ==
    { [ExecEntry(uid, "update_context_task", None, Missing, status)
          EXCEPT !.created_at = created,
                 !.executed_at = IF status = "EXECUTED" THEN created ELSE Missing] :
        status \in {"PENDING", "APPROVED", "EXECUTED", "REJECTED_LOGGED"},
        created \in {TimeLine[1], TimeLine[2]} }

CleanupQueues ==
    UNION { { q \in [1..n -> UNION {CleanupEntries(u) : u \in 1..n}] :
                \A i \in 1..n : q[i].uid = i } : n \in 0..MaxActions }

\* the hours at which the queue is cleaned: the entries are young, or around
\* three days old
CleanupInstants ==
    {TimeLine[2]} \cup {TimeLine[1] + PendingRetentionHours + d : d \in {-1, 0, 1, 2}}

InitCleanup ==
    /\ file \in CleanupQueues
    /\ now \in CleanupInstants
    /\ processed = {}
    /\ sent_reports = {}
    /\ decisions = <<>>
    /\ authorized_user = SLACK_USER_ID
    /\ slack = {}
    /\ bot_threads = {}
    /\ phase = "start_cleanup"
    /\ pc = [w \in Workers |-> "idle"]
    /\ filtered_mentions = [w \in Workers |-> <<>>]
    /\ new_actions = [w \in Workers |-> <<>>]
    /\ current_queue = [w \in Workers |-> <<>>]
    /\ idx = 0
    /\ dirty = FALSE
    /\ rtype = None
    /\ planner_calls = [e \in EventIds |-> 0]
    /\ marker_writes = [e \in EventIds |-> 0]
    /\ dispatched = [u \in 1..MaxActions |-> 0]
    /\ adapter_failures = {}
    /\ interrupted = {}
    /\ enqueued_reports = <<>>
    /\ next_uid = Len(file) + 1
    /\ crashes = 0
    /\ aborts = 0
    /\ posts = 0
    /\ clock = 0
    /\ catch_up_runs = {}
    /\ context = InitialContext

NextCleanup ==
    \/ CL_Run
    \/ \E i \in 1..MaxActions, verdict \in {"APPROVED", "REJECTED"} : Operator(i, verdict)

SpecCleanup == InitCleanup /\ [][NextCleanup]_vars

\* update_section on its own, on any short document
Documents == SeqsUpTo(DocAlphabet, MaxDocLen)
NewContents == {<<>>, <<"x">>, <<" ", "x", "\n">>}

\* a call of update_section that does not raise rewrites context.md
US_Update(new_content) ==
    /\ ~update_section(context, new_content).raised
    /\ Len(update_section(context, new_content).content) <= MaxDocLen
    /\ context' = update_section(context, new_content).content
    /\ UNCHANGED <<file, processed, sent_reports, decisions, authorized_user, slack,
                   bot_threads, now, phase, pc, filtered_mentions, new_actions,
                   current_queue, idx, dirty, rtype, planner_calls, marker_writes,
                   dispatched, adapter_failures, interrupted, enqueued_reports,
                   next_uid, crashes, aborts, posts, clock, catch_up_runs>>

InitSection ==
    /\ context \in Documents
    /\ file = <<>>
    /\ processed = {}
    /\ sent_reports = {}
    /\ decisions = <<>>
    /\ authorized_user = SLACK_USER_ID
    /\ slack = {}
    /\ bot_threads = {}
    /\ now = TimeLine[1]
    /\ phase = "loop"
    /\ pc = [w \in Workers |-> "idle"]
    /\ filtered_mentions = [w \in Workers |-> <<>>]
    /\ new_actions = [w \in Workers |-> <<>>]
    /\ current_queue = [w \in Workers |-> <<>>]
    /\ idx = 0
    /\ dirty = FALSE
    /\ rtype = None
    /\ planner_calls = [e \in EventIds |-> 0]
    /\ marker_writes = [e \in EventIds |-> 0]
    /\ dispatched = [u \in 1..MaxActions |-> 0]
    /\ adapter_failures = {}
    /\ interrupted = {}
    /\ enqueued_reports = <<>>
    /\ next_uid = 1
    /\ crashes = 0
    /\ aborts = 0
    /\ posts = 0
    /\ clock = 0
    /\ catch_up_runs = {}

NextSection == \E new_content \in NewContents : US_Update(new_content)

SpecSection == InitSection /\ [][NextSection]_vars

\* the execute job under the scheduler: start_daemon schedules it every 10
\* seconds and run_pending runs it whenever it is due, so a step of the job that
\* stays possible is eventually taken
\* ------------------------------------------------- deduplication on its own
\* Slack's ts is unique within a channel only: the operator's mentions with one
\* of two ts values in each channel
RawEvents ==
    {[ts |-> t, channel |-> c, user |-> SLACK_USER_ID, thread_ts |-> None] :
        t \in {"t1", "t2"}, c \in Channels}

\* lines 105-126: joined = msgs + user_msgs per channel (a message that names
\* both the bot and the operator is in both), the channels in channel_ids order
MergedMentions ==
    {Concat(<<a, b>>) :
        a \in SeqsUpTo({e \in RawEvents : e.channel = channel_ids[1]}, MaxFetched),
        b \in SeqsUpTo({e \in RawEvents : e.channel = channel_ids[2]}, MaxFetched)}

\* a cycle of the daemon's loop after its channel loop; markers of earlier cycles
InitDedup ==
    /\ file = <<>>
    /\ processed \in SUBSET {e.ts : e \in RawEvents}
    /\ sent_reports = {}
    /\ decisions = <<>>
    /\ authorized_user = SLACK_USER_ID
    /\ slack = {}
    /\ bot_threads = {}
    /\ now = TimeLine[1]
    /\ phase = "loop"
    /\ pc = [w \in Workers |-> IF w = "daemon" THEN "cm_dedup" ELSE "idle"]
    /\ filtered_mentions \in {[w \in Workers |-> IF w = "daemon" THEN ms ELSE <<>>] :
                                 ms \in MergedMentions}
    /\ new_actions = [w \in Workers |-> <<>>]
    /\ current_queue = [w \in Workers |-> <<>>]
    /\ idx = 0
    /\ dirty = FALSE
    /\ rtype = None
    /\ planner_calls = [e \in EventIds |-> 0]
    /\ marker_writes = [e \in EventIds |-> 0]
    /\ dispatched = [u \in 1..MaxActions |-> 0]
    /\ adapter_failures = {}
    /\ interrupted = {}
    /\ enqueued_reports = <<>>
    /\ next_uid = 1
    /\ crashes = 0
    /\ aborts = 0
    /\ posts = 0
    /\ clock = 0
    /\ catch_up_runs = {}
    /\ context = InitialContext

NextDedup ==
    \/ CM_Dedup("daemon")
    \/ CM_Mark("daemon")

SpecDedup == InitDedup /\ [][NextDedup]_vars

\* -------------------------------------------- the queue file failing a job
\* The daemon's mention check, report job and cleanup when a read of the queue
\* file can fail (the file is being rewritten by the webhook's thread or the
\* operator's tool, or is corrupt) and a write of it can fail
NextStorage ==
    \/ \E chans \in {channel_ids} : CM_Collect("daemon", chans)
    \/ CM_Mark("daemon")
    \/ CM_Plan("daemon")
    \/ CM_Except("daemon")
    \/ \E readable \in BOOLEAN : CM_Gate("daemon", readable)
    \/ CM_Save("daemon")
    \/ \E type \in ReportTypes, generated, readable, saved \in BOOLEAN :
          RP_Start(type, generated, readable, saved)
    \/ RP_Mark
    \/ CL_Run
    \/ \E ts \in EventIds : SlackPost(ts)
    \/ Tick

SpecStorage == InitLoop /\ [][NextStorage]_vars

SpecExecLive == InitExec /\ [][ExecuteStep]_vars /\ WF_vars(ExecuteStep)

NextGate == CM_Gate("daemon", TRUE) \/ CM_Save("daemon")

SpecGate == InitGate /\ [][NextGate]_vars

\* ===================================================================== claims
Queues == {file} \cup {current_queue[w] : w \in Workers}
DaemonQueue == current_queue["daemon"]

C2_DispatchedAtMostOnce == \A u \in 1..MaxActions : dispatched[u] <= 1

\* C3: an action of a state-mutating kind whose triggering identity is not the
\* authorized operator (or when no operator is configured) is created PENDING,
\* never APPROVED, whatever its confidence.
C3_UnauthorizedMutatingIsPending ==
    \A q \in Queues : \A i \in 1..Len(q) :
        ( /\ q[i].action_type \in MutatingKinds
          /\ \/ authorized_user = None
             \/ q[i].trigger_user_id # authorized_user )
        => q[i].status = "PENDING"

C3_Witness ==
    /\ pc["daemon"] = "idle"
    /\ \E i \in 1..Len(file) :
         /\ file[i].action_type = PollKind
         /\ file[i].trigger_user_id = OtherUser
         /\ file[i].confidence = 100
         /\ file[i].status = "PENDING"

\* a question aimed at the sender or the channel of one of the cycle's events
SelfQuestion(a, ms) ==
    /\ is_question(a)
    /\ a.data.target_channel_id \in triggering_users(ms) \cup triggering_channels(ms)

C4_TerminalStatusIsFinal ==
    [][\A i \in 1..Len(file) : \A j \in 1..Len(file') :
          (file[i].status \in TerminalStatuses /\ file'[j].uid = file[i].uid)
          => file'[j].status = file[i].status]_vars

\* C5: on a persisted queue in which no entry is left APPROVED or REJECTED (what
\* a completed run writes), the execute job dispatches nothing and leaves the
\* persisted queue as it is.
C5_SecondRunIsNoOp ==
    [][(\A i \in 1..Len(file) : file[i].status \notin {"APPROVED", "REJECTED"})
       => (file' = file /\ dispatched' = dispatched)]_vars

\* the end of a later run that touched nothing, over a queue in which an
\* earlier run dispatched one action and failed another
C5_Witness ==
    /\ pc["daemon"] = "ex_loop"
    /\ idx > Len(DaemonQueue)
    /\ ~dirty
    /\ DaemonQueue = file
    /\ \E i, j \in 1..Len(file) :
         /\ file[i].status = "EXECUTED"
         /\ dispatched[file[i].uid] = 1
         /\ file[j].status = "FAILED"

\* C6: at most one report is enqueued for a report key, whatever the catch-up
\* passes, scheduled runs and restarts.
C6_OneReportPerKey ==
    \A i, j \in 1..Len(enqueued_reports) :
        enqueued_reports[i] = enqueued_reports[j] => i = j

\* C8: an action becomes EXECUTED or FAILED only from EXECUTING.
C8_ExecutingBeforeTerminal ==
    [][\A i \in 1..Len(DaemonQueue) :
          ( /\ i <= Len(current_queue'["daemon"])
            /\ current_queue'["daemon"][i].status \in {"EXECUTED", "FAILED"}
            /\ current_queue'["daemon"][i].status # DaemonQueue[i].status )
          => DaemonQueue[i].status = "EXECUTING"]_vars

\* a persisted entry that carries no trace of an execution
Untouched(a) ==
    /\ a.status = "APPROVED"
    /\ a.executed_at = Missing
    /\ a.result = None
    /\ a.error = None

\* C9: an execution interrupted by a crash shows in the persisted queue.
C9_InterruptedIsDetectable ==
    \A i \in 1..Len(file) : file[i].uid \in interrupted => ~Untouched(file[i])

\* C10: an execute cycle that ends without the process being killed has
\* executed every APPROVED entry it read, but for the one whose processing
\* failed, and has persisted its status changes.
C10_FailureIsIsolated ==
    [][( /\ pc["daemon"] = "ex_loop"
         /\ pc'["daemon"] # "ex_loop"
         /\ crashes' = crashes )
       => ( /\ \A i \in 1..Len(DaemonQueue) :
                 i # idx => DaemonQueue[i].status # "APPROVED"
            /\ dirty => file' = DaemonQueue )]_vars

\* C11: the step in which an adapter does not perform an action's side effect
\* leaves that action FAILED, with an error text, in the job's queue.
C11_AdapterFailureIsFailed ==
    [][\A i \in 1..Len(current_queue'["daemon"]) :
          current_queue'["daemon"][i].uid \in adapter_failures' \ adapter_failures
          => /\ current_queue'["daemon"][i].status = "FAILED"
             /\ current_queue'["daemon"][i].error # None]_vars

\* a reminder whose time is not ahead of the clock
PastDue(action) ==
    /\ action.action_type = "schedule_reminder"
    /\ action.data.time_iso # Missing
    /\ action.data.time_iso <= now

\* C12: processing a schedule_reminder action whose time is already past
\* dispatches nothing to the messaging adapter.
C12_PastDueReminderNotDispatched ==
    [][( /\ pc["daemon"] = "ex_loop"
         /\ idx <= Len(DaemonQueue)
         /\ PastDue(DaemonQueue[idx]) )
       => dispatched'[DaemonQueue[idx].uid] = dispatched[DaemonQueue[idx].uid]]_vars

ReferenceStatus(entry) ==
    LET conf == IF entry.confidence = Missing THEN 50 ELSE entry.confidence
        by_operator == authorized_user # None /\ entry.trigger_user_id = authorized_user
        approved ==
            CASE entry.action_type \in {"send_message", "draft_reply"} -> conf > 70
              [] entry.action_type \in {"schedule_reminder", "update_context_task",
                                        "add_calendar_event", "send_email_summary"} ->
                    by_operator /\ conf > 85
              [] entry.action_type = "post_slack_poll" -> by_operator /\ conf > 75
              [] OTHER -> FALSE
    IN IF approved THEN "APPROVED" ELSE "PENDING"

\* C14: every action the gate creates has the status the reference rule gives.
C14_StatusFollowsReferenceRule ==
    \A q \in Queues : \A i \in 1..Len(q) : q[i].status = ReferenceStatus(q[i])

\* the gate has queued a task of the operator whose confidence is exactly 0.85
C14_Witness ==
    /\ pc["daemon"] = "cm_save"
    /\ Len(DaemonQueue) = 2
    /\ DaemonQueue[1].action_type = "send_email_summary"
    /\ DaemonQueue[1].confidence = 85
    /\ DaemonQueue[1].trigger_user_id = authorized_user
    /\ DaemonQueue[1].status = "PENDING"

\* C15: the validation step of a cycle whose proposals include one of an
\* unrecognized kind puts that proposal in the queue, PENDING.
C15_UnknownKindIsQueuedPending ==
    [][\A k \in 1..Len(new_actions["daemon"]) :
          ( /\ pc["daemon"] = "cm_gate"
            /\ new_actions["daemon"][k].action_type = UnknownKind )
          => \E i \in 1..Len(current_queue'["daemon"]) :
                /\ current_queue'["daemon"][i].action_type = UnknownKind
                /\ current_queue'["daemon"][i].data = new_actions["daemon"][k].data
                /\ current_queue'["daemon"][i].confidence = new_actions["daemon"][k].confidence
                /\ current_queue'["daemon"][i].status = "PENDING"]_vars

\* an unrecognized proposal of the operator, confidence 1.0, a question aimed
\* at the triggering channel: queued PENDING, and then saved
C15_Witness ==
    /\ pc["daemon"] = "idle"
    /\ Len(file) = 2
    /\ file[1].action_type = UnknownKind
    /\ file[1].confidence = 100
    /\ file[1].trigger_user_id = SLACK_USER_ID
    /\ file[1].data.target_channel_id = "C1"
    /\ is_question(file[1])
    /\ file[1].status = "PENDING"

\* C16: no action of an unrecognized kind is EXECUTED without an adapter
\* having been dispatched for it.
C16_UnknownKindNotExecuted ==
    \A q \in Queues : \A i \in 1..Len(q) :
        (q[i].action_type = UnknownKind /\ q[i].status = "EXECUTED")
        => dispatched[q[i].uid] >= 1

\* how far a status is along PENDING -> APPROVED / REJECTED -> terminal
StatusRank(status) ==
    IF status = "PENDING" THEN 0
    ELSE IF status \in {"APPROVED", "REJECTED"} THEN 1
    ELSE 2

\* C17: no write of the queue loses an entry another job appended (only
\* cleanup removes entries, those it does not keep) or takes an entry's status
\* back.
C17_NoLostUpdate ==
    [][\A i \in 1..Len(file) :
          \/ ~Kept(file[i])
          \/ \E j \in 1..Len(file') :
                /\ file'[j].uid = file[i].uid
                /\ StatusRank(file'[j].status) >= StatusRank(file[i].status)]_vars

\* worker w is inside check_mentions_job
InMentionCheck(w) ==
    pc[w] \in {"cm_mark", "cm_plan", "cm_gate", "cm_save"} \cup PlannerFailures

\* C18: two check_mentions_job invocations never overlap: the scheduler's and
\* the webhook's are never both running.
C18_MentionChecksNeverOverlap ==
    ~(InMentionCheck("daemon") /\ InMentionCheck("webhook"))

\* C19: no two actions check_mentions_job ever created share an id: two such
\* entries of the persisted queue or of the queues the running cycles hold,
\* made by different creations (uid), have different ids.
C19_ActionIdsAreDistinct ==
    \A q1, q2 \in Queues : \A i \in 1..Len(q1), j \in 1..Len(q2) :
        (q1[i].id.prefix = "" /\ q2[j].id.prefix = "" /\ q1[i].uid # q2[j].uid)
            => q1[i].id # q2[j].id

\* C20: when the startup catch-up pass has gone through its reports, it has
\* called every calendar-anchored report whose time has passed today and whose
\* marker is absent, and none whose time has not passed.
C20_CatchUpRunsMissedReports ==
    pc["daemon"] = "cu_end" =>
        /\ \A report \in CalendarReports :
              (ScheduledTimePassed(report) /\ ~ReportMarked(report))
                  => report \in catch_up_runs
        /\ \A report \in catch_up_runs : ScheduledTimePassed(report)

\* the rejection Decision records written for action uid
RejectionRecords(uid) ==
    {i \in 1..Len(decisions) : decisions[i].uid = uid /\ ~decisions[i].approved}

\* C21: over any sequence of execution cycles, restarts included, at most one
\* rejection Decision record is written for an action.
C21_RejectionLoggedOnce ==
    \A uid \in 1..MaxActions : Cardinality(RejectionRecords(uid)) <= 1

\* C22: an action that has just reached EXECUTED, FAILED or REJECTED_LOGGED
\* is kept by a cleanup run at that instant (it stays for one hour from then).
C22_TerminalKeptForAnHour ==
    [][\A i \in 1..Len(DaemonQueue) :
          (/\ pc["daemon"] = "ex_loop"
           /\ i <= Len(current_queue'["daemon"])
           /\ DaemonQueue[i].status \notin TerminalStatuses
           /\ current_queue'["daemon"][i].status \in TerminalStatuses)
              => Kept(current_queue'["daemon"][i])]_vars

C24_RateLimitedCallIsRetried ==
    pc["daemon"] = "cm_rate_limited" =>
        \A i \in 1..Len(filtered_mentions["daemon"]) :
            planner_calls[filtered_mentions["daemon"][i].ts] >= Len(keys)

\* the Decision records written for action uid
DecisionRecords(uid) == {i \in 1..Len(decisions) : decisions[i].uid = uid}

\* C25: every action the execute job has attempted (EXECUTED or FAILED) or
\* logged as rejected has a Decision record, and records are only ever added.
C25_EveryVerdictHasADecision ==
    /\ [][/\ Len(decisions') >= Len(decisions)
          /\ SubSeq(decisions', 1, Len(decisions)) = decisions]_vars
    /\ [](\A i \in 1..Len(DaemonQueue) :
            DaemonQueue[i].status \in TerminalStatuses
                => DecisionRecords(DaemonQueue[i].uid) # {})

\* a section header with the title: a line made of optional blanks, two or
\* more "#", blanks, the title, optional blanks
IsHeaderLine(doc, from, to) ==
    \E h \in from..to, t \in from..to :
        /\ h + 3 <= t
        /\ \A k \in from..(h - 1) : doc[k] = " "
        /\ \E b \in (h + 2)..(t - 1) :
             /\ \A k \in h..(b - 1) : doc[k] = "#"
             /\ \A k \in b..(t - 1) : doc[k] = " "
        /\ doc[t] = "T"
        /\ \A k \in (t + 1)..to : doc[k] = " "

HasSectionHeader(doc) ==
    \E from \in 1..Len(doc), to \in 1..Len(doc) :
        /\ from = 1 \/ doc[from - 1] = "\n"
        /\ to = Len(doc) \/ doc[to + 1] = "\n"
        /\ \A k \in from..to : doc[k] # "\n"
        /\ IsHeaderLine(doc, from, to)

\* C26: on a document without a section header of the title, update_section
\* raises and leaves the document as it was.
C26_MissingSectionRaises ==
    ~HasSectionHeader(context) =>
        \A new_content \in NewContents :
            /\ update_section(context, new_content).raised
            /\ update_section(context, new_content).content = context

Persisted(uid, statuses) ==
    \E i \in 1..Len(file) : file[i].uid = uid /\ file[i].status \in statuses

OperatorEvents == {m.ts : m \in {msg \in Messages : msg.user = SLACK_USER_ID}}

C31_FirstOccurrenceIsKept ==
    [][(pc["daemon"] = "cm_dedup" /\ pc'["daemon"] # "cm_dedup") =>
          LET merged == filtered_mentions["daemon"]
              kept == filtered_mentions'["daemon"]
          IN \A i \in 1..Len(merged) :
                (/\ merged[i].ts \notin processed
                 /\ \A j \in 1..(i - 1) : merged[j].ts # merged[i].ts)
                => SelectSeq(kept, LAMBDA m : m.ts = merged[i].ts) = <<merged[i]>>]_vars

\* C38: an event of one channel is not dropped because an event of another
\* channel carries the same ts: every merged event without a marker goes on.
C38_ChannelsAreNotConflated ==
    [][(pc["daemon"] = "cm_dedup" /\ pc'["daemon"] # "cm_dedup") =>
          \A i \in 1..Len(filtered_mentions["daemon"]) :
             filtered_mentions["daemon"][i].ts \notin processed
             => filtered_mentions["daemon"][i] \in Range(filtered_mentions'["daemon"])]_vars

\* C32: no send_message or draft_reply action whose text, under whichever key
\* execution reads it from, holds the bot's own tag enters the queue.
C32_SelfTagIsDropped ==
    \A q \in Queues : \A i \in 1..Len(q) :
        q[i].action_type \in MessageKinds
        => /\ ~Contains(q[i].data.message_text, BotTag)
           /\ ~Contains(q[i].data.text, BotTag)

\* C34: a queued message action that execution sends to a triggering sender or
\* channel with a question mark in its text had that question mark in the text
\* Rule 1 of the gate looked at.
C34_GateChecksTheSentText ==
    \A q \in Queues : \A i \in 1..Len(q) :
        (/\ q[i].action_type \in MessageKinds
         /\ q[i].data.target_channel_id \in triggering_users(filtered_mentions["daemon"])
                                            \cup triggering_channels(filtered_mentions["daemon"])
         /\ Contains(msg_text(q[i]), "?"))
        => is_question(q[i])

\* C33: a persisted PENDING action is still PENDING after every step that is
\* not the operator's approve/reject, unless cleanup purged it as stale.
C33_PendingOnlyLeftByTheOperator ==
    [][\/ \E n \in 1..MaxActions, verdict \in {"APPROVED", "REJECTED"} : Operator(n, verdict)
       \/ \A i \in 1..Len(file) :
             file[i].status = "PENDING"
             => \/ \E j \in 1..Len(file') :
                      file'[j].uid = file[i].uid /\ file'[j].status = "PENDING"
                \/ ~Kept(file[i])]_vars

\* C35: whatever a mention check, a report job or a cleanup cycle finds when it
\* reads the queue file, every persisted action is still persisted after each of
\* their steps, unless it was due to be purged.
C35_UnreadableQueueIsNotOverwritten ==
    [][\A i \in 1..Len(file) :
          \/ \E j \in 1..Len(file') : file'[j].uid = file[i].uid
          \/ ~Kept(file[i])]_vars

\* C37: when the marker of a report key is written, the report action of that
\* key is in the persisted queue.
C37_MarkerImpliesQueuedReport ==
    [][\A key \in sent_reports' \ sent_reports :
          \E i \in 1..Len(file') :
             /\ file'[i].id.prefix = "daily-" \o key[2]
             /\ file'[i].created_at \div 24 = key[3]]_vars

\* C36: an action becomes FAILED in the execute job only if no adapter was
\* called for it or the called adapter did not perform the side effect.
C36_FailedMeansNotPerformed ==
    [][\A i \in 1..Len(DaemonQueue) :
          (/\ pc["daemon"] = "ex_loop"
           /\ i <= Len(current_queue'["daemon"])
           /\ DaemonQueue[i].status = "APPROVED"
           /\ current_queue'["daemon"][i].status = "FAILED")
          => \/ dispatched'[DaemonQueue[i].uid] = dispatched[DaemonQueue[i].uid]
             \/ DaemonQueue[i].uid \in adapter_failures']_vars

\* C39: every proposal of a cycle that meets Rule 2's condition meets Rule 1's,
\* so the gate drops exactly the message proposals that Rule 1 or Rule 3 drops.
C39_Rule2IsSubsumedByRule1 ==
    \A i \in 1..Len(new_actions["daemon"]) :
        LET a == new_actions["daemon"][i]
            ms == filtered_mentions["daemon"]
        IN /\ Rule2(a, ms) => Rule1(a, ms)
           /\ Dropped(a, ms) <=> (a.action_type \in MessageKinds /\ (Rule1(a, ms) \/ Rule3(a)))

\* the gate has dropped a question to the operator, who asked: Rule 2's case
C39_Witness ==
    /\ pc["daemon"] = "cm_save"
    /\ new_actions["daemon"][1].action_type \in MessageKinds
    /\ Rule2(new_actions["daemon"][1], filtered_mentions["daemon"])
    /\ ~Rule3(new_actions["daemon"][1])
    /\ Len(current_queue["daemon"]) = 1
    /\ current_queue["daemon"][1].action_type = "schedule_reminder"

====
